---------------------------- MODULE Spec2Model ----------------------------
(***************************************************************************)
(* A model of the cgr class-file decoder.                                  *)
(*                                                                         *)
(* The repository holds two copies of the decoder: the current one in      *)
(* src/classfile.rs (with src/instruction.rs) and the superseded one in    *)
(* src/lib.rs.  Both are modelled; the variable impl says which copy a     *)
(* behaviour runs.  Bytes are the integers 0..255.  A u32 is kept as the   *)
(* pair <<high 16 bits, low 16 bits>> so that no value leaves the range    *)
(* of the model checker's integers.                                        *)
(*                                                                         *)
(* A parser result is one of                                               *)
(*    [kind |-> "ok", val, rest]   nom's Ok((rest, val))                   *)
(*    [kind |-> "err", code]       nom's Err(Err::Error(_)) of ErrorKind   *)
(*    [kind |-> "panic", msg]      the thread panics                       *)
(*    [kind |-> "hang"]            a loop that never ends                  *)
(***************************************************************************)
EXTENDS Integers, Sequences, FiniteSets, TLC

VARIABLES impl, build, input, rest, pc, todo, cf, outcome

vars == <<impl, build, input, rest, pc, todo, cf, outcome>>

(***************************************************************************)
(* Bounds of the model.                                                    *)
(***************************************************************************)
MaxCp == 2
MaxText == 2
MaxCode == 3
MaxLen == 2
MaxTail == 1
MaxCut == 1

(***************************************************************************)
(* Parser results.                                                         *)
(***************************************************************************)
Ok(v, r) == [kind |-> "ok", val |-> v, rest |-> r]
Err(c) == [kind |-> "err", code |-> c]
Panic(m) == [kind |-> "panic", msg |-> m]
Hang == [kind |-> "hang"]

\* The spec's error kinds, as the values the code produces for them.
UnexpectedEnd == "Eof"
InvalidText == "Verify"
AttributeNameNotUtf8 == "Fail"

Drop(s, n) == SubSeq(s, n + 1, Len(s))
Front(s) == SubSeq(s, 1, Len(s) - 1)

RECURSIVE BitAnd(_, _)
BitAnd(a, b) ==
  IF a = 0 \/ b = 0 THEN 0
  ELSE (a % 2) * (b % 2) + 2 * BitAnd(a \div 2, b \div 2)

(***************************************************************************)
(* Cursor primitives (nom's complete parsers).                             *)
(***************************************************************************)
u8(i) ==
  IF Len(i) < 1 THEN Err("Eof") ELSE Ok(i[1], Drop(i, 1))

be_u16(i) ==
  IF Len(i) < 2 THEN Err("Eof") ELSE Ok(i[1] * 256 + i[2], Drop(i, 2))

be_u32(i) ==
  IF Len(i) < 4 THEN Err("Eof")
  ELSE Ok(<<i[1] * 256 + i[2], i[3] * 256 + i[4]>>, Drop(i, 4))

\* take(n as usize) for a u16 n.
take(n, i) ==
  IF Len(i) < n THEN Err("Eof") ELSE Ok(SubSeq(i, 1, n), Drop(i, n))

\* n as usize > len, for a u32 n = <<hi, lo>>, without leaving the integers.
U32Exceeds(n, len) ==
  \/ n[1] > len \div 65536
  \/ n[1] = len \div 65536 /\ n[2] > len % 65536

\* A take that hands out what is left when fewer than n bytes remain.
take32_partial(n, i) ==
  IF U32Exceeds(n, Len(i)) THEN Ok(i, <<>>)
  ELSE Ok(SubSeq(i, 1, n[2]), Drop(i, n[2]))

\* take(n as usize) for a u32 n.
take32(n, i) ==
  IF U32Exceeds(n, Len(i)) THEN Err("Eof")
  ELSE Ok(SubSeq(i, 1, n[2]), Drop(i, n[2]))

\* `let (input, v) = r?; K(v, input)`: a failure returns at once.
Bind(r, K(_, _)) == IF r.kind # "ok" THEN r ELSE K(r.val, r.rest)

two_u16(i) ==
  Bind(be_u16(i), LAMBDA a, i1 :
  Bind(be_u16(i1), LAMBDA b, i2 :
  Ok(<<a, b>>, i2)))

two_u32(i) ==
  Bind(be_u32(i), LAMBDA a, i1 :
  Bind(be_u32(i1), LAMBDA b, i2 :
  Ok(<<a, b>>, i2)))

(***************************************************************************)
(* The text decoder of src/lib.rs: the hand-written loop over the bytes of *)
(* a Utf8 constant.  A String is kept as its sequence of scalar values.    *)
(***************************************************************************)
IsChar(c) == (0 <= c /\ c < 55296) \/ (57343 < c /\ c <= 1114111)

\* One && chain of the loop's conditions, left to right: conds is a sequence
\* of <<offset, mask, value>> standing for (bytes[i + offset] & mask) == value.
\* "T" and "F" are its value; "P" is the index panic of a bytes[i + offset]
\* that lies outside the slice.
RECURSIVE AndChain(_, _, _)
AndChain(bytes, i, conds) ==
  IF conds = <<>> THEN "T"
  ELSE LET c == Head(conds) IN
       IF i + c[1] >= Len(bytes) THEN "P"
       ELSE IF BitAnd(bytes[i + c[1] + 1], c[2]) = c[3]
            THEN AndChain(bytes, i, Tail(conds))
            ELSE "F"

TwoByteCond == << <<0, 224, 192>>, <<1, 192, 128>> >>
ThreeByteCond == << <<0, 240, 224>>, <<1, 192, 128>>, <<2, 192, 128>> >>
SixByteCond ==
  << <<0, 255, 237>>, <<1, 240, 160>>, <<2, 192, 128>>,
     <<3, 255, 237>>, <<4, 240, 176>>, <<5, 192, 128>> >>

\* The loop `while i < bytes.len()`, i counted from 0 as in the source.
RECURSIVE LibUtf8Loop(_, _, _)
LibUtf8Loop(bytes, i, str) ==
  IF ~(i < Len(bytes)) THEN Ok(str, <<>>)
  ELSE
  LET b == bytes[i + 1]
      c2 == AndChain(bytes, i, TwoByteCond)
      c3 == AndChain(bytes, i, ThreeByteCond)
      c6 == AndChain(bytes, i, SixByteCond)
  IN
  IF BitAnd(b, 128) = 0 THEN
    IF b = 0 \/ (240 <= b /\ b <= 255)
    THEN Panic("Invalid byte in UTF8 constant")
    ELSE LibUtf8Loop(bytes, i + 1, Append(str, b))
  ELSE IF c2 = "P" THEN Panic("index out of bounds")
  ELSE IF c2 = "T" THEN
    LET c == BitAnd(b, 31) * 64 + BitAnd(bytes[i + 2], 63) IN
    IF ~IsChar(c) THEN Panic("Java compiler HALP")
    ELSE LibUtf8Loop(bytes, i + 2, Append(str, c))
  ELSE IF c3 = "P" THEN Panic("index out of bounds")
  ELSE IF c3 = "T" THEN
    LET c == BitAnd(b, 15) * 4096 + BitAnd(bytes[i + 2], 63) * 64
             + BitAnd(bytes[i + 3], 63) IN
    IF ~IsChar(c) THEN Panic("Java compiler HALP")
    ELSE LibUtf8Loop(bytes, i + 3, Append(str, c))
  ELSE IF c6 = "P" THEN Panic("index out of bounds")
  ELSE IF c6 = "T" THEN
    LET c == 65536 + BitAnd(bytes[i + 2], 15) * 65536
             + BitAnd(bytes[i + 3], 63) * 1024
             + BitAnd(bytes[i + 5], 15) * 64 + BitAnd(bytes[i + 6], 63) IN
    IF ~IsChar(c) THEN Panic("Java compiler HALP")
    ELSE LibUtf8Loop(bytes, i + 6, Append(str, c))
  \* No branch is taken: i keeps its value and the loop repeats for ever.
  ELSE Hang

LibUtf8(bytes) == LibUtf8Loop(bytes, 0, <<>>)

(***************************************************************************)
(* The text decoder of src/classfile.rs: cesu8::from_java_cesu8, which     *)
(* accepts the bytes as they are when they are valid UTF-8 and otherwise   *)
(* decodes them as Java's modified UTF-8.  The result is Ok(scalars, <<>>) *)
(* or Err("Cesu8DecodingError").                                           *)
(***************************************************************************)
IsCont(b) == 128 <= b /\ b <= 191

\* core::str::from_utf8, decoding as it validates.
RECURSIVE from_utf8(_, _, _)
from_utf8(bytes, i, str) ==
  IF ~(i < Len(bytes)) THEN Ok(str, <<>>)
  ELSE
  LET n == Len(bytes) - i
      b == bytes[i + 1]
      b1 == IF n >= 2 THEN bytes[i + 2] ELSE 0
      b2 == IF n >= 3 THEN bytes[i + 3] ELSE 0
      b3 == IF n >= 4 THEN bytes[i + 4] ELSE 0
  IN
  IF b < 128 THEN from_utf8(bytes, i + 1, Append(str, b))
  ELSE IF 194 <= b /\ b <= 223 THEN
    IF IsCont(b1)
    THEN from_utf8(bytes, i + 2, Append(str, (b - 192) * 64 + (b1 - 128)))
    ELSE Err("Utf8Error")
  ELSE IF 224 <= b /\ b <= 239 THEN
    IF /\ IsCont(b1) /\ IsCont(b2)
       /\ (b = 224 => b1 >= 160)
       /\ (b = 237 => b1 <= 159)
    THEN from_utf8(bytes, i + 3,
           Append(str, (b - 224) * 4096 + (b1 - 128) * 64 + (b2 - 128)))
    ELSE Err("Utf8Error")
  ELSE IF 240 <= b /\ b <= 244 THEN
    IF /\ IsCont(b1) /\ IsCont(b2) /\ IsCont(b3)
       /\ (b = 240 => b1 >= 144)
       /\ (b = 244 => b1 <= 143)
    THEN from_utf8(bytes, i + 4,
           Append(str, (b - 240) * 262144 + (b1 - 128) * 4096
                       + (b2 - 128) * 64 + (b3 - 128)))
    ELSE Err("Utf8Error")
  ELSE Err("Utf8Error")

\* core::str::utf8_char_width
utf8_char_width(b) ==
  IF b < 128 THEN 1
  ELSE IF 194 <= b /\ b <= 223 THEN 2
  ELSE IF 224 <= b /\ b <= 239 THEN 3
  ELSE IF 240 <= b /\ b <= 244 THEN 4
  ELSE 0

\* cesu8's decode_from_iter for Variant::Java.
RECURSIVE decode_from_iter(_, _, _)
decode_from_iter(bytes, i, str) ==
  IF ~(i < Len(bytes)) THEN Ok(str, <<>>)
  ELSE
  LET n == Len(bytes) - i
      first == bytes[i + 1]
      w == utf8_char_width(first)
  IN
  IF first = 0 THEN Err("Cesu8DecodingError")
  ELSE IF first < 128 THEN decode_from_iter(bytes, i + 1, Append(str, first))
  ELSE IF first = 192 THEN
    IF n >= 2 /\ bytes[i + 2] = 128
    THEN decode_from_iter(bytes, i + 2, Append(str, 0))
    ELSE Err("Cesu8DecodingError")
  ELSE IF ~(n >= 2 /\ IsCont(bytes[i + 2])) THEN Err("Cesu8DecodingError")
  ELSE
  LET second == bytes[i + 2] IN
  IF w = 2
  THEN decode_from_iter(bytes, i + 2,
         Append(str, (first - 192) * 64 + (second - 128)))
  ELSE IF w = 3 THEN
    IF ~(n >= 3 /\ IsCont(bytes[i + 3])) THEN Err("Cesu8DecodingError")
    ELSE
    LET third == bytes[i + 3] IN
    IF \/ first = 224 /\ second >= 160
       \/ 225 <= first /\ first <= 236
       \/ first = 237 /\ second <= 159
       \/ 238 <= first
    THEN decode_from_iter(bytes, i + 3,
           Append(str, (first - 224) * 4096 + (second - 128) * 64
                       + (third - 128)))
    ELSE IF first = 237 /\ 160 <= second /\ second <= 175 THEN
      IF /\ n >= 6
         /\ bytes[i + 4] = 237
         /\ 176 <= bytes[i + 5] /\ bytes[i + 5] <= 191
         /\ IsCont(bytes[i + 6])
      THEN LET s1 == 53248 + (second - 128) * 64 + (third - 128)
               s2 == 53248 + (bytes[i + 5] - 128) * 64 + (bytes[i + 6] - 128)
           IN decode_from_iter(bytes, i + 6,
                Append(str, 65536 + (s1 - 55296) * 1024 + (s2 - 56320)))
      ELSE Err("Cesu8DecodingError")
    ELSE Err("Cesu8DecodingError")
  ELSE Err("Cesu8DecodingError")

from_java_cesu8(bytes) ==
  LET plain == from_utf8(bytes, 0, <<>>) IN
  IF plain.kind = "ok" THEN plain ELSE decode_from_iter(bytes, 0, <<>>)

(***************************************************************************)
(* CpInfo::read: one constant-table entry.  Both copies share the tag      *)
(* dispatch and differ in how tag 1 decodes its text.                      *)
(***************************************************************************)
Utf8Entry(impl_, length, bytes) ==
  IF impl_ = "lib"
  THEN Bind(LibUtf8(bytes), LAMBDA str, none :
       Ok([tag |-> 1, length |-> length, value |-> str], <<>>))
  ELSE LET str == from_java_cesu8(bytes) IN
       IF str.kind # "ok" THEN Err("Verify")
       ELSE Ok([tag |-> 1, value |-> str.val], <<>>)

CpInfo_read(impl_, i) ==
  Bind(u8(i), LAMBDA tag, i1 :
  CASE tag = 7 ->
         Bind(be_u16(i1), LAMBDA name_index, i2 :
         Ok([tag |-> 7, name_index |-> name_index], i2))
    [] tag \in {9, 10, 11} ->
         Bind(be_u16(i1), LAMBDA class_index, i2 :
         Bind(be_u16(i2), LAMBDA name_and_type_index, i3 :
         Ok([tag |-> tag, class_index |-> class_index,
             name_and_type_index |-> name_and_type_index], i3)))
    [] tag = 8 ->
         Bind(be_u16(i1), LAMBDA string_index, i2 :
         Ok([tag |-> 8, string_index |-> string_index], i2))
    [] tag \in {3, 4} ->
         Bind(be_u32(i1), LAMBDA bytes, i2 :
         Ok([tag |-> tag, bytes |-> bytes], i2))
    [] tag \in {5, 6} ->
         Bind(be_u32(i1), LAMBDA high_bytes, i2 :
         Bind(be_u32(i2), LAMBDA low_bytes, i3 :
         Ok([tag |-> tag, high_bytes |-> high_bytes,
             low_bytes |-> low_bytes], i3)))
    [] tag = 12 ->
         Bind(be_u16(i1), LAMBDA name_index, i2 :
         Bind(be_u16(i2), LAMBDA descriptor_index, i3 :
         Ok([tag |-> 12, name_index |-> name_index,
             descriptor_index |-> descriptor_index], i3)))
    [] tag = 1 ->
         Bind(be_u16(i1), LAMBDA length, i2 :
         Bind(take(length, i2), LAMBDA bytes, i3 :
         Bind(Utf8Entry(impl_, length, bytes), LAMBDA entry, none :
         Ok(entry, i3))))
    [] tag = 15 ->
         Bind(u8(i1), LAMBDA reference_kind, i2 :
         Bind(be_u16(i2), LAMBDA reference_index, i3 :
         Ok([tag |-> 15, reference_kind |-> reference_kind,
             reference_index |-> reference_index], i3)))
    [] tag = 16 ->
         Bind(be_u16(i1), LAMBDA descriptor_index, i2 :
         Ok([tag |-> 16, descriptor_index |-> descriptor_index], i2))
    [] tag = 18 ->
         Bind(be_u16(i1), LAMBDA bootstrap_method_attr_index, i2 :
         Bind(be_u16(i2), LAMBDA name_and_type_index, i3 :
         Ok([tag |-> 18,
             bootstrap_method_attr_index |-> bootstrap_method_attr_index,
             name_and_type_index |-> name_and_type_index], i3)))
    [] OTHER -> Panic("internal error: entered unreachable code"))

(***************************************************************************)
(* Instruction::read (src/instruction.rs) and nom's many1 over it.         *)
(***************************************************************************)
Instruction_read(i) ==
  Bind(u8(i), LAMBDA instruction, i1 :
  CASE instruction = 42 -> Ok([variant |-> "Aload2"], i1)
    [] instruction = 43 -> Ok([variant |-> "Aload1"], i1)
    [] instruction = 44 -> Ok([variant |-> "Aload2"], i1)
    [] instruction = 45 -> Ok([variant |-> "Aload3"], i1)
    [] instruction = 177 -> Ok([variant |-> "Return"], i1)
    [] instruction = 183 ->
         Bind(u8(i1), LAMBDA indexbyte1, i2 :
         Bind(u8(i2), LAMBDA indexbyte2, i3 :
         Ok([variant |-> "Invokespecial", indexbyte1 |-> indexbyte1,
             indexbyte2 |-> indexbyte2], i3)))
    [] OTHER -> Panic("unknown command"))

\* A loop that stops after the first element.
many1_loop_first(i, acc) == Ok(acc, i)

\* The loop of many1 after its first element: an Err::Error of the element
\* parser ends the loop with what was collected.
RECURSIVE many1_loop(_, _)
many1_loop(i, acc) ==
  LET r == Instruction_read(i) IN
  IF r.kind = "err" THEN Ok(acc, i)
  ELSE IF r.kind # "ok" THEN r
  ELSE IF Len(r.rest) = Len(i) THEN Err("Many1")
  ELSE many1_loop(r.rest, Append(acc, r.val))

\* many1(Instruction::read): the first element must parse.
many1(i) ==
  LET r == Instruction_read(i) IN
  IF r.kind # "ok" THEN r ELSE many1_loop(r.rest, <<r.val>>)

(***************************************************************************)
(* Access flags: from_bits_retain in src/classfile.rs keeps every bit,     *)
(* from_bits_truncate in src/lib.rs keeps the declared ones.               *)
(***************************************************************************)
FieldAccessFlags_all == 1 + 2 + 4 + 8 + 16 + 64 + 128 + 4096 + 16384
MethodAccessFlags_all ==
  1 + 2 + 4 + 8 + 16 + 32 + 64 + 128 + 256 + 1024 + 2048 + 4096
ClassAccessFlags_all == 1 + 16 + 32 + 512 + 1024 + 4096 + 8192 + 16384

from_bits(impl_, all, bits) ==
  IF impl_ = "lib" THEN BitAnd(bits, all) ELSE bits

AccessFlags_read(impl_, all, i) ==
  Bind(be_u16(i), LAMBDA bits, i1 : Ok(from_bits(impl_, all, bits), i1))

FieldAccessFlags_read(impl_, i) == AccessFlags_read(impl_, FieldAccessFlags_all, i)
MethodAccessFlags_read(impl_, i) == AccessFlags_read(impl_, MethodAccessFlags_all, i)
ClassAccessFlags_read(impl_, i) == AccessFlags_read(impl_, ClassAccessFlags_all, i)

(***************************************************************************)
(* Table entries of the Code and LineNumberTable attributes.               *)
(***************************************************************************)
ExceptionTableEntry_read(i) ==
  Bind(be_u16(i), LAMBDA start_pc, i1 :
  Bind(be_u16(i1), LAMBDA end_pc, i2 :
  Bind(be_u16(i2), LAMBDA handler_pc, i3 :
  Bind(be_u16(i3), LAMBDA catch_type, i4 :
  Ok([start_pc |-> start_pc, end_pc |-> end_pc,
      handler_pc |-> handler_pc, catch_type |-> catch_type], i4)))))

LineNumberTableEntry_read(i) ==
  Bind(be_u16(i), LAMBDA start_pc, i1 :
  Bind(be_u16(i1), LAMBDA line_number, i2 :
  Ok([start_pc |-> start_pc, line_number |-> line_number], i2)))

(***************************************************************************)
(* AttributeInfo::read, FieldInfo::read, MethodInfo::read and nom's count. *)
(* count(f, n) is written with the parser f named by a string.             *)
(***************************************************************************)
Str_Code == <<67, 111, 100, 101>>
Str_LineNumberTable ==
  <<76, 105, 110, 101, 78, 117, 109, 98, 101, 114, 84, 97, 98, 108, 101>>
Str_SourceFile == <<83, 111, 117, 114, 99, 101, 70, 105, 108, 101>>

RECURSIVE AttributeInfo_read(_, _, _)
RECURSIVE count(_, _, _, _, _, _)
RECURSIVE Element_read(_, _, _, _)

\* The instruction sequence of a Code attribute: src/classfile.rs decodes
\* the bytes, src/lib.rs keeps them.  What is left of the slice is dropped.
Code_instructions(impl_, code) ==
  IF impl_ = "lib" THEN Ok(code, <<>>) ELSE many1(code)

\* The Code arm of AttributeInfo::read.
Code_read(impl_, i, constant_pool) ==
  Bind(be_u16(i), LAMBDA max_stack, i1 :
  Bind(be_u16(i1), LAMBDA max_locals, i2 :
  Bind(be_u32(i2), LAMBDA code_length, i3 :
  Bind(take32(code_length, i3), LAMBDA code, i4 :
  Bind(Code_instructions(impl_, code), LAMBDA instructions, none :
  Bind(be_u16(i4), LAMBDA exception_table_length, i5 :
  Bind(count("ExceptionTableEntry", exception_table_length, i5, <<>>,
             impl_, constant_pool), LAMBDA exception_table, i6 :
  Bind(be_u16(i6), LAMBDA attributes_count, i7 :
  Bind(count("AttributeInfo", attributes_count, i7, <<>>, impl_,
             constant_pool), LAMBDA attributes, i8 :
  IF impl_ = "lib"
  THEN Ok([variant |-> "Code",
           max_stack |-> max_stack,
           max_locals |-> max_locals,
           code_length |-> code_length,
           code |-> instructions,
           exception_table_length |-> exception_table_length,
           exception_table |-> exception_table,
           attributes_count |-> attributes_count,
           attributes |-> attributes], i8)
  ELSE Ok([variant |-> "Code",
           max_stack |-> max_stack,
           max_locals |-> max_locals,
           code_length |-> code_length,
           code |-> instructions,
           exception_table |-> exception_table,
           attributes |-> attributes], i8))))))))))

\* An opaque arm that takes the rest of the input, whatever the declared
\* length.
Attribute_read_greedy(impl_, attribute_name, attribute_length, i, constant_pool) ==
  IF attribute_name = Str_Code THEN Code_read(impl_, i, constant_pool)
  ELSE Ok([variant |-> "Unknown", bytes |-> i], <<>>)

\* The match on the attribute's name.
Attribute_read(impl_, attribute_name, attribute_length, i, constant_pool) ==
  IF attribute_name = Str_Code THEN Code_read(impl_, i, constant_pool)
  ELSE IF attribute_name = Str_LineNumberTable THEN
    Bind(be_u16(i), LAMBDA line_number_table_length, i1 :
    Bind(count("LineNumberTableEntry", line_number_table_length, i1, <<>>,
               impl_, constant_pool), LAMBDA line_number_table, i2 :
    IF impl_ = "lib"
    THEN Ok([variant |-> "LineNumberTable",
             line_number_table_length |-> line_number_table_length,
             line_number_table |-> line_number_table], i2)
    ELSE Ok([variant |-> "LineNumberTable",
             line_number_table |-> line_number_table], i2)))
  ELSE IF attribute_name = Str_SourceFile THEN
    Bind(be_u16(i), LAMBDA source_file_index, i1 :
    Ok([variant |-> "SourceFile", source_file_index |-> source_file_index], i1))
  ELSE
    Bind(take32(attribute_length, i), LAMBDA bytes, i1 :
    Ok([variant |-> "Unknown", bytes |-> bytes], i1))

\* A lookup that takes an entry that is no text for the empty name.
AttributeName_lenient(constant_pool, attribute_name_index) ==
  IF attribute_name_index >= Len(constant_pool)
  THEN Panic("index out of bounds")
  ELSE LET e == constant_pool[attribute_name_index + 1] IN
       IF e.tag = 1 THEN Ok(e.value, <<>>) ELSE Ok(<<>>, <<>>)

\* constant_pool[attribute_name_index as usize] and the match on it:
\* slot k of the table is constant_pool[k + 1] here.
AttributeName(constant_pool, attribute_name_index) ==
  IF attribute_name_index >= Len(constant_pool)
  THEN Panic("index out of bounds")
  ELSE LET e == constant_pool[attribute_name_index + 1] IN
       IF e.tag = 1 THEN Ok(e.value, <<>>) ELSE Err("Fail")

AttributeInfo_read(impl_, i, constant_pool) ==
  Bind(be_u16(i), LAMBDA attribute_name_index, i1 :
  Bind(be_u32(i1), LAMBDA attribute_length, i2 :
  Bind(AttributeName(constant_pool, attribute_name_index),
       LAMBDA attribute_name, none :
  Bind(Attribute_read(impl_, attribute_name, attribute_length, i2,
                      constant_pool), LAMBDA attribute, i3 :
  IF impl_ = "lib"
  THEN Ok([attribute_name_index |-> attribute_name_index,
           attribute_length |-> attribute_length,
           attribute |-> attribute], i3)
  ELSE Ok([attribute_name_index |-> attribute_name_index,
           attribute |-> attribute], i3)))))

\* FieldInfo::read and MethodInfo::read: the same shape, another flag set.
MemberInfo_read(impl_, all, i, constant_pool) ==
  Bind(AccessFlags_read(impl_, all, i), LAMBDA access_flags, i1 :
  Bind(be_u16(i1), LAMBDA name_index, i2 :
  Bind(be_u16(i2), LAMBDA descriptor_index, i3 :
  Bind(be_u16(i3), LAMBDA attributes_count, i4 :
  Bind(count("AttributeInfo", attributes_count, i4, <<>>, impl_,
             constant_pool), LAMBDA attributes, i5 :
  IF impl_ = "lib"
  THEN Ok([access_flags |-> access_flags,
           name_index |-> name_index,
           descriptor_index |-> descriptor_index,
           attributes_count |-> attributes_count,
           attributes |-> attributes], i5)
  ELSE Ok([access_flags |-> access_flags,
           name_index |-> name_index,
           descriptor_index |-> descriptor_index,
           attributes |-> attributes], i5))))))

FieldInfo_read(impl_, i, constant_pool) ==
  MemberInfo_read(impl_, FieldAccessFlags_all, i, constant_pool)

MethodInfo_read(impl_, i, constant_pool) ==
  MemberInfo_read(impl_, MethodAccessFlags_all, i, constant_pool)

\* The parser f that count(f, n) repeats.
Element_read(f, impl_, i, constant_pool) ==
  CASE f = "CpInfo" -> CpInfo_read(impl_, i)
    [] f = "be_u16" -> be_u16(i)
    [] f = "ExceptionTableEntry" -> ExceptionTableEntry_read(i)
    [] f = "LineNumberTableEntry" -> LineNumberTableEntry_read(i)
    [] f = "AttributeInfo" -> AttributeInfo_read(impl_, i, constant_pool)
    [] f = "FieldInfo" -> FieldInfo_read(impl_, i, constant_pool)
    [] f = "MethodInfo" -> MethodInfo_read(impl_, i, constant_pool)

\* nom's count(f, n): n times f, the first failure ends it with that failure.
count(f, n, i, acc, impl_, constant_pool) ==
  IF n = 0 THEN Ok(acc, i)
  ELSE Bind(Element_read(f, impl_, i, constant_pool), LAMBDA o, i1 :
       count(f, n - 1, i1, Append(acc, o), impl_, constant_pool))

(***************************************************************************)
(* ClassFile::read.  constant_pool_count - 1 is a u16 subtraction: with    *)
(* overflow checks (a debug build) it panics at 0, without them (a release *)
(* build) it wraps to 65535.                                               *)
(***************************************************************************)
Placeholder == [tag |-> 7, name_index |-> 0]

EntriesToRead(build_, constant_pool_count) ==
  IF constant_pool_count > 0 THEN Ok(constant_pool_count - 1, <<>>)
  ELSE IF build_ = "debug" THEN Panic("attempt to subtract with overflow")
  ELSE Ok(65535, <<>>)

\* A table left without its slot 0.
InsertPlaceholder_none(constant_pool) == constant_pool

\* constant_pool.insert(0, CpInfo::Class { name_index: 0 })
InsertPlaceholder(constant_pool) == <<Placeholder>> \o constant_pool

\* The function as a whole: Ok(the ClassFile, the remaining input) or the
\* first failure.
ClassFile_read(impl_, build_, i) ==
  Bind(be_u32(i), LAMBDA magic, i1 :
  Bind(be_u16(i1), LAMBDA minor_version, i2 :
  Bind(be_u16(i2), LAMBDA major_version, i3 :
  Bind(be_u16(i3), LAMBDA constant_pool_count, i4 :
  Bind(EntriesToRead(build_, constant_pool_count), LAMBDA n, none :
  Bind(count("CpInfo", n, i4, <<>>, impl_, <<>>), LAMBDA entries, i5 :
  LET constant_pool == InsertPlaceholder(entries) IN
  Bind(ClassAccessFlags_read(impl_, i5), LAMBDA access_flags, i6 :
  Bind(be_u16(i6), LAMBDA this_class, i7 :
  Bind(be_u16(i7), LAMBDA super_class, i8 :
  Bind(be_u16(i8), LAMBDA interfaces_count, i9 :
  Bind(count("be_u16", interfaces_count, i9, <<>>, impl_, constant_pool),
       LAMBDA interfaces, i10 :
  Bind(be_u16(i10), LAMBDA fields_count, i11 :
  Bind(count("FieldInfo", fields_count, i11, <<>>, impl_, constant_pool),
       LAMBDA fields, i12 :
  Bind(be_u16(i12), LAMBDA methods_count, i13 :
  Bind(count("MethodInfo", methods_count, i13, <<>>, impl_, constant_pool),
       LAMBDA methods, i14 :
  Bind(be_u16(i14), LAMBDA attributes_count, i15 :
  Bind(count("AttributeInfo", attributes_count, i15, <<>>, impl_,
             constant_pool), LAMBDA attributes, i16 :
  Ok([magic |-> magic,
      minor_version |-> minor_version,
      major_version |-> major_version,
      constant_pool_count |-> constant_pool_count,
      constant_pool |-> constant_pool,
      access_flags |-> access_flags,
      this_class |-> this_class,
      super_class |-> super_class,
      interfaces |-> interfaces,
      fields |-> fields,
      methods |-> methods,
      attributes |-> attributes], i16))))))))))))))))))

(***************************************************************************)
(* The inputs of the model: byte buffers assembled from parts, so that the *)
(* decoder gets past the header and into the part a buffer is about.       *)
(***************************************************************************)
U16(n) == <<n \div 256, n % 256>>
U32(n) == <<0, 0>> \o U16(n)

RECURSIVE Concat(_)
Concat(ss) == IF ss = <<>> THEN <<>> ELSE Head(ss) \o Concat(Tail(ss))

\* All sequences over S of length 0..n.
RECURSIVE SeqsUpTo(_, _)
SeqsUpTo(S, n) ==
  IF n = 0 THEN {<<>>}
  ELSE LET shorter == SeqsUpTo(S, n - 1) IN
       shorter \cup {Append(q, x) : q \in {t \in shorter : Len(t) = n - 1}, x \in S}

Magic == <<202, 254, 186, 190>>

\* A whole file: declared constant-table count, the entries, the interface
\* indices, the fields, the methods and the attributes, each already encoded.
File(cpc, cps, ifs, fs, ms, as) ==
  Magic \o U16(0) \o U16(52) \o U16(cpc) \o Concat(cps)
    \o U16(33) \o U16(1) \o U16(0)
    \o U16(Len(ifs)) \o Concat(ifs)
    \o U16(Len(fs)) \o Concat(fs)
    \o U16(Len(ms)) \o Concat(ms)
    \o U16(Len(as)) \o Concat(as)

Utf8Bytes(text) == <<1>> \o U16(Len(text)) \o text
Attr(name_index, length, body) == U16(name_index) \o U32(length) \o body
\* An attribute whose declared length is 65536 or 2^31.
LongAttr(name_index, high, body) == U16(name_index) \o U16(high) \o U16(0) \o body
Member(flags, as) == U16(flags) \o U16(1) \o U16(2) \o U16(Len(as)) \o Concat(as)
CodeBody(code_length, code, excs, as) ==
  U16(1) \o U16(1) \o U32(code_length) \o code
    \o U16(Len(excs)) \o Concat(excs) \o U16(Len(as)) \o Concat(as)

\* Bytes of Utf8 constants: 'A', NUL, a two-byte lead and its continuation,
\* the lead and second byte of a surrogate half, and two bytes of 0xf8..0xff.
TextBytes == {65, 0, 195, 169, 237, 160, 248, 255}
\* Six-byte runs 11101101 1010vvvv 10wwwwww 11101101 1011yyyy 10zzzzzz, alone
\* and after an 'A'.
SurrogateRuns ==
  { <<237, 160 + v, 128 + w, 237, 176 + y, 128 + z>> :
      v \in {0, 15}, w \in {0, 63}, y \in {0, 15}, z \in {0, 63} }
SurrogateTexts == SurrogateRuns \cup { <<65>> \o r : r \in SurrogateRuns }
Texts == SeqsUpTo(TextBytes, MaxText) \cup SurrogateTexts

\* One encoded entry per tag tried; the tags 0, 2, 13, 19 and 255 are not
\* tags of the format.
TagEntries ==
  { Utf8Bytes(<<88>>),
    <<3, 0, 0, 0, 7>>,
    <<5, 0, 0, 0, 1, 0, 0, 0, 2>>,
    <<6, 0, 0, 0, 1, 0, 0, 0, 2>>,
    <<7, 0, 1>>,
    <<12, 0, 1, 0, 1>>,
    <<15, 1, 0, 1>>,
    <<0>>, <<2, 0, 1>>, <<13, 0, 1>>, <<255>> }

\* The constant table of the buffers that are about attributes:
\* slot 1 "Code", 2 "X", 3 a Class, 4 "SourceFile", 5 "LineNumberTable".
NamesCp ==
  << Utf8Bytes(Str_Code), Utf8Bytes(<<88>>), <<7, 0, 2>>,
     Utf8Bytes(Str_SourceFile), Utf8Bytes(Str_LineNumberTable) >>
NamesCpc == Len(NamesCp) + 1

\* Opcode bytes of instruction streams: four the decoder knows (183 takes
\* two operand bytes) and 0, which it does not.
OpBytes == {42, 45, 177, 183, 0}
Codes == SeqsUpTo(OpBytes, MaxCode)

\* Attribute bodies tried under every name index, in range or not.
BodyBytes == {0, 177}
Bodies == SeqsUpTo(BodyBytes, MaxLen)
AnyAttrs ==
  { Attr(ix, l, b) : ix \in 0..(NamesCpc + 1), l \in 0..MaxLen, b \in Bodies }

NestedChoices ==
  { <<>>, <<Attr(2, 1, <<9>>)>>, <<Attr(3, 0, <<>>)>>,
    <<Attr(5, 6, U16(1) \o U16(0) \o U16(7))>> }
ExcChoices == { <<>>, <<U16(0) \o U16(1) \o U16(0) \o U16(0)>> }
CodeAttrs ==
  { Attr(1, 12 + Len(c), CodeBody(Len(c), c, <<>>, n)) :
      c \in Codes, n \in NestedChoices }
  \cup { Attr(1, 12 + Len(c), CodeBody(Len(c), c, e, <<>>)) :
           c \in {<<177>>, <<183, 0>>}, e \in ExcChoices }
KnownAttrs ==
  { Attr(4, l, U16(2)) : l \in 0..MaxLen }
  \cup { Attr(5, 2, U16(0)), Attr(5, 6, U16(1) \o U16(0) \o U16(7)) }

TextFiles == { File(2, <<Utf8Bytes(t)>>, <<>>, <<>>, <<>>, <<>>) : t \in Texts }
TableFiles ==
  { File(cpc, cps, <<>>, <<>>, <<>>, <<>>) :
      cpc \in {0}, cps \in {<<>>, <<Utf8Bytes(<<88>>)>>} }
  \cup UNION { { File(Len(cps) + d, cps, <<>>, <<>>, <<>>, <<>>) : d \in {1, 2} } :
                 cps \in SeqsUpTo(TagEntries, MaxCp) }
HugeAttrs ==
  { LongAttr(ix, h, b) : ix \in {1, 2}, h \in {1, 32768}, b \in {<<>>, <<0, 0>>} }
AttrFiles ==
  { File(NamesCpc, NamesCp, <<>>, <<>>, <<>>, <<a>>) :
      a \in AnyAttrs \cup CodeAttrs \cup KnownAttrs \cup HugeAttrs }
  \cup { File(NamesCpc, NamesCp, <<>>, <<>>, <<>>, <<a, b>>) :
           a \in KnownAttrs, b \in {Attr(2, 1, <<9>>), Attr(0, 0, <<>>)} }
MemberFiles ==
  { File(NamesCpc, NamesCp, ifs, <<Member(fl, fa)>>, <<Member(fl, ma)>>, <<>>) :
      ifs \in {<<>>, <<U16(3)>>},
      fl \in {1, 65535},
      fa \in {<<>>, <<Attr(2, 0, <<>>)>>, <<Attr(3, 0, <<>>)>>},
      ma \in { <<>>, <<Attr(1, 13, CodeBody(1, <<177>>, <<>>, <<>>))>>,
               <<Attr(1, 13, CodeBody(1, <<0>>, <<>>, <<>>))>> } }

\* Files whose first four bytes are not the magic number.
OtherMagics == { <<0, 0, 0, 0>>, <<202, 254, 186, 191>>, <<190, 186, 254, 202>> }
MagicFiles ==
  { m \o Drop(f, 4) :
      m \in OtherMagics,
      f \in { File(1, <<>>, <<>>, <<>>, <<>>, <<>>),
              File(2, <<Utf8Bytes(<<88>>)>>, <<>>, <<>>, <<>>, <<>>) } }

Files == TextFiles \cup TableFiles \cup AttrFiles \cup MemberFiles \cup MagicFiles

\* A file as it is, followed by up to MaxTail more bytes, or with up to
\* MaxCut bytes missing at its end.
Inputs ==
  { f \o t : f \in Files, t \in SeqsUpTo({0}, MaxTail) }
  \cup { SubSeq(f, 1, Len(f) - k) : f \in Files, k \in 0..MaxCut }

Impls == {"classfile", "lib"}
Builds == {"debug", "release"}

(***************************************************************************)
(* The decode as a state machine: one step per statement of                *)
(* ClassFile::read, and one per element of each count(..).  pc names the   *)
(* statement to run next; while a count runs, todo is the number of        *)
(* elements it has still to read.  A failure ends the decode where it is:  *)
(* outcome says how, and pc, todo and rest stay at the read that failed.   *)
(***************************************************************************)
EmptyClassFile ==
  [magic |-> <<0, 0>>, minor_version |-> 0, major_version |-> 0,
   constant_pool_count |-> 0, constant_pool |-> <<>>, access_flags |-> 0,
   this_class |-> 0, super_class |-> 0, interfaces |-> <<>>,
   fields |-> <<>>, methods |-> <<>>, attributes |-> <<>>]

Running == [kind |-> "running", code |-> ""]
Returned == [kind |-> "ok", code |-> ""]
Failure(r) ==
  [kind |-> r.kind,
   code |-> IF r.kind = "err" THEN r.code
            ELSE IF r.kind = "panic" THEN r.msg ELSE ""]

Init ==
  /\ impl \in Impls
  /\ build \in Builds
  /\ input \in Inputs
  /\ rest = input
  /\ pc = "magic"
  /\ todo = 0
  /\ cf = EmptyClassFile
  /\ outcome = Running

\* The `?` of a failed read: the function returns, nothing else changes.
Abort(r) ==
  /\ outcome' = Failure(r)
  /\ UNCHANGED <<pc, rest, todo, cf>>

\* A read that stores one field and goes on to the next statement.
ReadField(at, r, field, next) ==
  /\ outcome = Running
  /\ pc = at
  /\ IF r.kind # "ok" THEN Abort(r)
     ELSE /\ cf' = [cf EXCEPT ![field] = r.val]
          /\ rest' = r.rest
          /\ pc' = next
          /\ UNCHANGED <<todo, outcome>>
  /\ UNCHANGED <<impl, build, input>>

\* A read of the count that starts a count(..) loop.
ReadCount(at, ready, r, next) ==
  /\ outcome = Running
  /\ pc = at
  /\ ready
  /\ IF r.kind # "ok" THEN Abort(r)
     ELSE /\ todo' = r.val
          /\ rest' = r.rest
          /\ pc' = next
          /\ UNCHANGED <<cf, outcome>>
  /\ UNCHANGED <<impl, build, input>>

\* One element of a count(..) loop, pushed onto the field's vector.
ReadElement(at, r, field) ==
  /\ outcome = Running
  /\ pc = at
  /\ todo > 0
  /\ IF r.kind # "ok" THEN Abort(r)
     ELSE /\ cf' = [cf EXCEPT ![field] = Append(@, r.val)]
          /\ rest' = r.rest
          /\ todo' = todo - 1
          /\ UNCHANGED <<pc, outcome>>
  /\ UNCHANGED <<impl, build, input>>

ReadMagic == ReadField("magic", be_u32(rest), "magic", "minor_version")
ReadMinorVersion ==
  ReadField("minor_version", be_u16(rest), "minor_version", "major_version")
ReadMajorVersion ==
  ReadField("major_version", be_u16(rest), "major_version", "constant_pool_count")

ReadConstantPoolCount ==
  /\ outcome = Running
  /\ pc = "constant_pool_count"
  /\ LET r == be_u16(rest)
         n == EntriesToRead(build, r.val)
     IN IF r.kind # "ok" THEN Abort(r)
        ELSE IF n.kind # "ok"
        THEN /\ outcome' = Failure(n)
             /\ cf' = [cf EXCEPT !.constant_pool_count = r.val]
             /\ rest' = r.rest
             /\ pc' = "constant_pool"
             /\ UNCHANGED todo
        ELSE /\ cf' = [cf EXCEPT !.constant_pool_count = r.val]
             /\ rest' = r.rest
             /\ todo' = n.val
             /\ pc' = "constant_pool"
             /\ UNCHANGED outcome
  /\ UNCHANGED <<impl, build, input>>

ReadCpInfo == ReadElement("constant_pool", CpInfo_read(impl, rest), "constant_pool")

\* An insert of whatever value the slot happens to hold.
DoInsertPlaceholder_arbitrary ==
  /\ outcome = Running
  /\ pc = "constant_pool"
  /\ todo = 0
  /\ \E x \in 0..1 :
       cf' = [cf EXCEPT !.constant_pool = <<[tag |-> 7, name_index |-> x]>> \o @]
  /\ pc' = "access_flags"
  /\ UNCHANGED <<impl, build, input, rest, todo, outcome>>

DoInsertPlaceholder ==
  /\ outcome = Running
  /\ pc = "constant_pool"
  /\ todo = 0
  /\ cf' = [cf EXCEPT !.constant_pool = InsertPlaceholder(@)]
  /\ pc' = "access_flags"
  /\ UNCHANGED <<impl, build, input, rest, todo, outcome>>

ReadAccessFlags ==
  ReadField("access_flags", ClassAccessFlags_read(impl, rest), "access_flags",
            "this_class")
ReadThisClass == ReadField("this_class", be_u16(rest), "this_class", "super_class")
ReadSuperClass ==
  ReadField("super_class", be_u16(rest), "super_class", "interfaces_count")

ReadInterfacesCount ==
  ReadCount("interfaces_count", TRUE, be_u16(rest), "interfaces")
ReadInterface == ReadElement("interfaces", be_u16(rest), "interfaces")

ReadFieldsCount == ReadCount("interfaces", todo = 0, be_u16(rest), "fields")
ReadFieldInfo ==
  ReadElement("fields", FieldInfo_read(impl, rest, cf.constant_pool), "fields")

ReadMethodsCount == ReadCount("fields", todo = 0, be_u16(rest), "methods")
ReadMethodInfo ==
  ReadElement("methods", MethodInfo_read(impl, rest, cf.constant_pool), "methods")

ReadAttributesCount == ReadCount("methods", todo = 0, be_u16(rest), "attributes")
ReadAttributeInfo ==
  ReadElement("attributes", AttributeInfo_read(impl, rest, cf.constant_pool),
              "attributes")

\* A return that takes unconsumed bytes for a failure.
Return_strict ==
  /\ outcome = Running
  /\ pc = "attributes"
  /\ todo = 0
  /\ pc' = "done"
  /\ outcome' = IF rest = <<>> THEN Returned ELSE Failure(Err("TrailingData"))
  /\ UNCHANGED <<impl, build, input, rest, todo, cf>>

\* Ok((input, ClassFile { .. }))
Return ==
  /\ outcome = Running
  /\ pc = "attributes"
  /\ todo = 0
  /\ pc' = "done"
  /\ outcome' = Returned
  /\ UNCHANGED <<impl, build, input, rest, todo, cf>>

Next ==
  \/ ReadMagic
  \/ ReadMinorVersion
  \/ ReadMajorVersion
  \/ ReadConstantPoolCount
  \/ ReadCpInfo
  \/ DoInsertPlaceholder
  \/ ReadAccessFlags
  \/ ReadThisClass
  \/ ReadSuperClass
  \/ ReadInterfacesCount
  \/ ReadInterface
  \/ ReadFieldsCount
  \/ ReadFieldInfo
  \/ ReadMethodsCount
  \/ ReadMethodInfo
  \/ ReadAttributesCount
  \/ ReadAttributeInfo
  \/ Return

Spec == Init /\ [][Next]_vars

\* The steps compute what the function computes.
Finished == outcome # Running

StepsAgree ==
  Finished =>
    LET r == ClassFile_read(impl, build, input) IN
    /\ outcome.kind = r.kind
    /\ outcome = Failure(r) \/ (r.kind = "ok" /\ outcome = Returned)
    /\ r.kind = "ok" => r.val = cf /\ r.rest = rest /\ pc = "done"

(***************************************************************************)
(* Claims.                                                                 *)
(***************************************************************************)
Succeeded == outcome = Returned
Truncated == ClassFile_read(impl, build, Front(input))

\* C1 as stated: whenever an input decodes successfully, the same input
\* without its final byte fails with UnexpectedEnd.
C1_TruncationFails_Original ==
  (Succeeded /\ Len(input) > 0) => Truncated = Err(UnexpectedEnd)

\* C1, amended: whenever an input decodes successfully and leaves no
\* trailing bytes unconsumed, the same input without its final byte fails
\* with UnexpectedEnd: no record is returned, nothing panics or hangs.
C1_TruncationFails ==
  (Succeeded /\ rest = <<>>) => Truncated = Err(UnexpectedEnd)

\* A decode of a file with members and a Code attribute that consumed its
\* whole input, and whose truncation fails with UnexpectedEnd.
C1_Witness ==
  /\ Succeeded /\ rest = <<>>
  /\ cf.methods # <<>>
  /\ Truncated = Err(UnexpectedEnd)

(***************************************************************************)
(* What a state is about to read, for the claims about one read.  An       *)
(* element read is pending at `rest` while its count runs, and `rest`      *)
(* stays there when the read fails.                                        *)
(***************************************************************************)
AtElement(stage) == pc = stage /\ todo > 0

KnownTags == {1, 3, 4, 5, 6, 7, 8, 9, 10, 11, 12, 15, 16, 18}
KnownOpcodes == {42, 43, 44, 45, 177, 183}

\* The name index and declared length that open an attribute at i.
AttrHeader(i) ==
  Bind(be_u16(i), LAMBDA ix, i1 :
  Bind(be_u32(i1), LAMBDA len, i2 :
  Ok([name_index |-> ix, length |-> len], i2)))

\* The text a name index resolves to; <<-1>> when it resolves to none.
NameAt(constant_pool, ix) ==
  IF ix < Len(constant_pool) /\ constant_pool[ix + 1].tag = 1
  THEN constant_pool[ix + 1].value
  ELSE <<-1>>

\* The instruction bytes of a Code body that starts at i.
CodeSlice(i) ==
  Bind(be_u16(i), LAMBDA max_stack, i1 :
  Bind(be_u16(i1), LAMBDA max_locals, i2 :
  Bind(be_u32(i2), LAMBDA code_length, i3 :
  take32(code_length, i3))))

\* A top-level attribute is pending and its header is complete.
AtAttribute == AtElement("attributes") /\ AttrHeader(rest).kind = "ok"
PendingHeader == AttrHeader(rest).val
PendingBody == AttrHeader(rest).rest
PendingName == NameAt(cf.constant_pool, PendingHeader.name_index)
PendingAttribute == AttributeInfo_read(impl, rest, cf.constant_pool)

\* A top-level Code attribute is pending, src/classfile.rs is to decode it,
\* and its instruction bytes are all there.
AtCode ==
  /\ impl = "classfile"
  /\ AtAttribute
  /\ PendingName = Str_Code
  /\ CodeSlice(PendingBody).kind = "ok"
PendingCode == CodeSlice(PendingBody).val

\* The encoded width of an instruction, by its opcode (the operand fields
\* the Instruction enum declares).
OpWidth(op) == IF op = 183 THEN 3 ELSE 1

\* An instruction stream cut into its instructions by opcode width, and how
\* the cutting ended: "ok" at the end of the stream, "unknown" at an opcode
\* outside KnownOpcodes, "cut" at an instruction whose operands run past the
\* end of the stream.
RECURSIVE Scan(_)
Scan(c) ==
  IF c = <<>> THEN [chunks |-> <<>>, end |-> "ok"]
  ELSE IF c[1] \notin KnownOpcodes THEN [chunks |-> <<>>, end |-> "unknown"]
  ELSE IF Len(c) < OpWidth(c[1]) THEN [chunks |-> <<>>, end |-> "cut"]
  ELSE LET r == Scan(Drop(c, OpWidth(c[1]))) IN
       [chunks |-> <<SubSeq(c, 1, OpWidth(c[1]))>> \o r.chunks, end |-> r.end]

\* C2: a Long or Double entry takes two slots of the constant table: the
\* slot after it holds the unused placeholder, so the entry read next is
\* stored one slot further.
C2_LongTakesTwoSlots ==
  \A k \in 1..Len(cf.constant_pool) :
    cf.constant_pool[k].tag \in {5, 6} =>
      /\ k < Len(cf.constant_pool)
      /\ cf.constant_pool[k + 1] = Placeholder

\* C3: an opcode byte that Instruction::read does not recognise makes the
\* decode of the Code attribute, and of the file, return the UnknownOpcode
\* failure: no panic, no skipped byte.
C3_UnknownOpcodeFails ==
  (AtCode /\ Scan(PendingCode).end = "unknown") =>
    /\ PendingAttribute = Err("UnknownOpcode")
    /\ Finished => outcome = Failure(Err("UnknownOpcode"))

\* C4: a constant-table entry whose tag byte is none of the format's tags
\* makes CpInfo::read, and the decode of the file, return the
\* UnknownConstantTag failure, without a panic.
C4_UnknownTagFails ==
  (AtElement("constant_pool") /\ rest # <<>> /\ rest[1] \notin KnownTags) =>
    /\ CpInfo_read(impl, rest) = Err("UnknownConstantTag")
    /\ Finished => outcome = Failure(Err("UnknownConstantTag"))

\* The first attribute of a pending field or method: 8 bytes of flags,
\* name index, descriptor index and attribute count come before it.
AtMember ==
  /\ AtElement("fields") \/ AtElement("methods")
  /\ Len(rest) >= 8
  /\ rest[7] * 256 + rest[8] > 0
  /\ AttrHeader(Drop(rest, 8)).kind = "ok"
MemberHeader == AttrHeader(Drop(rest, 8)).val
PendingMember ==
  IF pc = "fields" THEN FieldInfo_read(impl, rest, cf.constant_pool)
  ELSE MethodInfo_read(impl, rest, cf.constant_pool)

\* The name index is in range and the entry it names is no Utf8 entry.
NotUtf8(ix) ==
  ix < Len(cf.constant_pool) /\ cf.constant_pool[ix + 1].tag # 1

\* C5: an attribute whose name index is in range but names an entry that is
\* not Utf8 (slot 0, the placeholder, included) makes AttributeInfo::read,
\* and with it the decode of the member and of the file, fail with
\* AttributeNameNotUtf8: no panic, no attribute of any shape.
C5_NameNotUtf8Fails ==
  /\ (AtAttribute /\ NotUtf8(PendingHeader.name_index)) =>
       /\ PendingAttribute = Err(AttributeNameNotUtf8)
       /\ Finished => outcome = Failure(Err(AttributeNameNotUtf8))
  /\ (AtMember /\ NotUtf8(MemberHeader.name_index)) =>
       /\ PendingMember = Err(AttributeNameNotUtf8)
       /\ Finished => outcome = Failure(Err(AttributeNameNotUtf8))

C5_Witness ==
  /\ AtAttribute
  /\ NotUtf8(PendingHeader.name_index)
  /\ PendingHeader.name_index > 0
  /\ outcome = Failure(Err(AttributeNameNotUtf8))

\* C6: an attribute whose name index is not below the number of slots of
\* the constant table makes AttributeInfo::read, and the decode of the file,
\* return the IndexOutOfRange failure, without a panic.
C6_NameIndexOutOfRangeFails ==
  (AtAttribute /\ PendingHeader.name_index >= Len(cf.constant_pool)) =>
    /\ PendingAttribute = Err("IndexOutOfRange")
    /\ Finished => outcome = Failure(Err("IndexOutOfRange"))

\* The pending attribute's name is a text other than the three known names.
OpaqueName ==
  PendingName \notin {<<-1>>, Str_Code, Str_LineNumberTable, Str_SourceFile}

\* C7: an attribute whose name is a text other than "Code",
\* "LineNumberTable" and "SourceFile", of declared length L, decodes to an
\* Unknown payload of exactly the L bytes after the length field and leaves
\* the input exactly L bytes further; with fewer than L bytes left it fails,
\* with UnexpectedEnd.
C7_OpaquePayload ==
  (AtAttribute /\ OpaqueName) =>
    IF U32Exceeds(PendingHeader.length, Len(PendingBody))
    THEN /\ PendingAttribute = Err(UnexpectedEnd)
         /\ Finished => outcome = Failure(Err(UnexpectedEnd))
    ELSE /\ PendingAttribute.kind = "ok"
         /\ PendingAttribute.val.attribute =
              [variant |-> "Unknown",
               bytes |-> SubSeq(PendingBody, 1, PendingHeader.length[2])]
         /\ PendingAttribute.rest = Drop(PendingBody, PendingHeader.length[2])
         /\ ~Finished

C7_Witness ==
  /\ AtAttribute
  /\ OpaqueName
  /\ PendingHeader.length[2] >= 2
  /\ PendingAttribute.kind = "ok"
  /\ Len(PendingAttribute.val.attribute.bytes) = PendingHeader.length[2]
  /\ Len(PendingAttribute.rest) > 0

\* The encoded width of a decoded instruction.
InstructionWidth(ins) == IF ins.variant = "Invokespecial" THEN 3 ELSE 1

RECURSIVE SumWidths(_)
SumWidths(instructions) ==
  IF instructions = <<>> THEN 0
  ELSE InstructionWidth(Head(instructions)) + SumWidths(Tail(instructions))

\* Instruction ins is what chunk c encodes, as far as width and operands go.
Encodes(c, ins) ==
  /\ InstructionWidth(ins) = Len(c)
  /\ c[1] = 177 => ins = [variant |-> "Return"]
  /\ c[1] = 183 => ins = [variant |-> "Invokespecial",
                          indexbyte1 |-> c[2], indexbyte2 |-> c[3]]

\* C8: instruction bytes that are k >= 1 recognised opcodes, each with all
\* of its operands, decode to exactly k instructions in stream order, whose
\* widths sum to code_length; the stream [0xB1] decodes to the one
\* instruction Return.
C8_InstructionsDecoded ==
  (AtCode /\ Scan(PendingCode).end = "ok" /\ PendingCode # <<>>) =>
    LET chunks == Scan(PendingCode).chunks
        r == many1(PendingCode)
    IN /\ r.kind = "ok"
       /\ r.rest = <<>>
       /\ Len(r.val) = Len(chunks)
       /\ \A j \in 1..Len(chunks) : Encodes(chunks[j], r.val[j])
       /\ SumWidths(r.val) = Len(PendingCode)
       /\ PendingCode = <<177>> => r.val = <<[variant |-> "Return"]>>
       /\ PendingAttribute.kind = "ok" =>
            PendingAttribute.val.attribute.code = r.val

C8_Witness ==
  /\ AtCode
  /\ Scan(PendingCode).end = "ok"
  /\ Len(Scan(PendingCode).chunks) >= 2
  /\ PendingCode[Len(PendingCode)] = 177
  /\ PendingAttribute.kind = "ok"
  /\ Len(PendingAttribute.val.attribute.code) = Len(Scan(PendingCode).chunks)

\* C9: instruction bytes whose last instruction lacks operand bytes inside
\* the range make the decode of the Code attribute, and of the file, fail
\* with UnexpectedEnd: the incomplete instruction is not dropped.
C9_IncompleteInstructionFails ==
  (AtCode /\ Scan(PendingCode).end = "cut") =>
    /\ PendingAttribute = Err(UnexpectedEnd)
    /\ Finished => outcome = Failure(Err(UnexpectedEnd))

\* A Utf8 entry is pending with all of its bytes there.
AtUtf8 ==
  /\ AtElement("constant_pool")
  /\ rest # <<>> /\ rest[1] = 1
  /\ Bind(be_u16(Tail(rest)), LAMBDA length, i1 : take(length, i1)).kind = "ok"
PendingText ==
  Bind(be_u16(Tail(rest)), LAMBDA length, i1 : take(length, i1)).val

\* Position p of the text follows single-byte characters only, so a leading
\* byte is expected there.
LeadingAt(bytes, p) == \A q \in 1..(p - 1) : bytes[q] \in 1..127

\* C10: a Utf8 entry with a byte in 0xf8..0xff where a leading byte is
\* expected makes the text decoding, and the decode of the file, fail with
\* InvalidText.
C10_InvalidLeadingByteFails ==
  (AtUtf8 /\ \E p \in 1..Len(PendingText) :
               PendingText[p] >= 248 /\ LeadingAt(PendingText, p)) =>
    /\ CpInfo_read(impl, rest) = Err(InvalidText)
    /\ Finished => outcome = Failure(Err(InvalidText))

\* The input has four bytes to read as the magic and they are not 0xCAFEBABE.
BadMagicInput == Len(input) >= 4 /\ SubSeq(input, 1, 4) # Magic

\* C11: ClassFile::read succeeds only if the first four bytes are
\* 0xCAFEBABE; with any other four bytes it fails with BadMagic at the
\* magic, before it decodes anything else.
C11_BadMagicFails ==
  BadMagicInput =>
    /\ pc = "magic"
    /\ Finished => outcome = Failure(Err("BadMagic"))

StageOrder ==
  <<"magic", "minor_version", "major_version", "constant_pool_count",
    "constant_pool", "access_flags", "this_class", "super_class",
    "interfaces_count", "interfaces", "fields", "methods", "attributes",
    "done">>
Rank(p) == CHOOSE k \in 1..Len(StageOrder) : StageOrder[k] = p

\* The constant table is complete: every entry is read and slot 0 holds the
\* placeholder.
TableComplete ==
  /\ Rank(pc) > Rank("constant_pool")
  /\ cf.constant_pool # <<>>
  /\ Head(cf.constant_pool) = Placeholder

\* C13: the top-level decode takes its steps in the fixed order magic,
\* versions, constant table, access flags, this/super, interfaces, fields,
\* methods, attributes: a step stays at its position or moves to the next
\* one; no field, method or attribute is decoded before the constant table,
\* its slot 0 included, is complete; and no later step changes the table.
C13_StepOrder ==
  [][ /\ Rank(pc') \in {Rank(pc), Rank(pc) + 1}
      /\ Rank(pc) > Rank("constant_pool") =>
           cf'.constant_pool = cf.constant_pool
      /\ (\/ cf'.fields # cf.fields
          \/ cf'.methods # cf.methods
          \/ cf'.attributes # cf.attributes) => TableComplete
      /\ cf'.methods # cf.methods => cf'.fields = cf.fields
      /\ cf'.attributes # cf.attributes =>
           cf'.fields = cf.fields /\ cf'.methods = cf.methods ]_vars

C13_Witness ==
  /\ pc = "done"
  /\ cf.interfaces # <<>> /\ cf.fields # <<>> /\ cf.methods # <<>>
  /\ Len(cf.constant_pool) > 1
  /\ Head(cf.constant_pool) = Placeholder

\* The first k bytes of the input decode completely, with nothing left.
CompleteAt(k) == ClassFile_read(impl, build, SubSeq(input, 1, k)).kind = "ok"
                 /\ ClassFile_read(impl, build, SubSeq(input, 1, k)).rest = <<>>

\* C14: an input that is a complete file followed by extra bytes (up to
\* MaxTail of them here) decodes successfully to the record of the file
\* without them, and the remaining input is exactly the extra bytes:
\* trailing data alone is no failure.
C14_TrailingBytesKept ==
  Finished =>
    \A k \in 0..Len(input) :
      (Len(input) - k <= MaxTail /\ CompleteAt(k)) =>
        /\ outcome = Returned
        /\ cf = ClassFile_read(impl, build, SubSeq(input, 1, k)).val
        /\ rest = SubSeq(input, k + 1, Len(input))

C14_Witness ==
  /\ Succeeded
  /\ rest # <<>>
  /\ cf.attributes # <<>>
  /\ CompleteAt(Len(input) - Len(rest))

\* A field or method is pending and its access-flag word is there.
AtFlags == (AtElement("fields") \/ AtElement("methods")) /\ Len(rest) >= 2
PendingWord == rest[1] * 256 + rest[2]
PendingFlags ==
  IF pc = "fields" THEN FieldAccessFlags_read(impl, rest)
  ELSE MethodAccessFlags_read(impl, rest)

\* C15: every 16-bit access-flag word of a field or method is accepted and
\* the flag set stored has exactly the bits of the word, the bits outside
\* the defined flags included.
C15_FlagBitsKept ==
  AtFlags =>
    /\ PendingFlags = Ok(PendingWord, Drop(rest, 2))
    /\ PendingMember.kind = "ok" => PendingMember.val.access_flags = PendingWord

\* The discriminant that enum Instruction declares for a variant.
Discriminant(variant) ==
  CASE variant = "Aload0" -> 42
    [] variant = "Aload1" -> 43
    [] variant = "Aload2" -> 44
    [] variant = "Aload3" -> 45
    [] variant = "Return" -> 177
    [] variant = "Invokespecial" -> 183

\* C16: Instruction::read gives, for every recognised opcode byte, the
\* variant whose declared discriminant is that byte (42 Aload0, 43 Aload1,
\* 44 Aload2, 45 Aload3, 177 Return, 183 Invokespecial with its two operand
\* bytes in order), so that different opcode bytes give different variants.
C16_OpcodeGivesItsVariant ==
  (AtCode /\ PendingCode # <<>> /\ PendingCode[1] \in KnownOpcodes
          /\ Len(PendingCode) >= OpWidth(PendingCode[1])) =>
    LET r == Instruction_read(PendingCode) IN
    /\ r.kind = "ok"
    /\ Discriminant(r.val.variant) = PendingCode[1]
    /\ PendingCode[1] = 183 =>
         r.val.indexbyte1 = PendingCode[2] /\ r.val.indexbyte2 = PendingCode[3]

\* The six bytes of t from position p on are a surrogate-pair run.
IsSurrogateRun(t, p) ==
  /\ p + 5 <= Len(t)
  /\ t[p] = 237 /\ t[p + 1] \in 160..175 /\ t[p + 2] \in 128..191
  /\ t[p + 3] = 237 /\ t[p + 4] \in 176..191 /\ t[p + 5] \in 128..191

\* 0x10000 + (v << 16) + (w << 10) + (y << 6) + z
SurrogateScalar(t, p) ==
  65536 + (t[p + 1] - 160) * 65536 + (t[p + 2] - 128) * 1024
        + (t[p + 4] - 176) * 64 + (t[p + 5] - 128)

\* C17: a six-byte run 11101101 1010vvvv 10wwwwww 11101101 1011yyyy
\* 10zzzzzz of a Utf8 constant is consumed as one run and gives the one
\* scalar 0x10000 + (v << 16) + (w << 10) + (y << 6) + z, never two
\* three-byte runs.
C17_SurrogateRunIsOneScalar ==
  /\ (AtUtf8 /\ Len(PendingText) = 6 /\ IsSurrogateRun(PendingText, 1)) =>
       /\ CpInfo_read(impl, rest).kind = "ok"
       /\ CpInfo_read(impl, rest).val.value = <<SurrogateScalar(PendingText, 1)>>
  /\ (AtUtf8 /\ Len(PendingText) = 7 /\ PendingText[1] = 65
             /\ IsSurrogateRun(PendingText, 2)) =>
       /\ CpInfo_read(impl, rest).kind = "ok"
       /\ CpInfo_read(impl, rest).val.value =
            <<65, SurrogateScalar(PendingText, 2)>>

\* C18: the text decoder terminates on every byte range of a Utf8 constant:
\* it returns the text or the InvalidText failure, and never loops for ever,
\* reads outside the range or panics.
C18_TextDecoderTerminates ==
  AtUtf8 =>
    /\ CpInfo_read(impl, rest).kind \in {"ok", "err"}
    /\ CpInfo_read(impl, rest).kind = "err" =>
         CpInfo_read(impl, rest) = Err(InvalidText)
    /\ Finished => outcome = Failure(Err(InvalidText))

\* A top-level attribute of a recognised shape is pending and its body
\* decodes.
AtKnownShape ==
  /\ AtAttribute
  /\ PendingName \in {Str_Code, Str_LineNumberTable, Str_SourceFile}
  /\ Attribute_read(impl, PendingName, PendingHeader.length, PendingBody,
                    cf.constant_pool).kind = "ok"

\* The number of bytes the body decode consumes after the length field.
BodyConsumed ==
  Len(PendingBody)
    - Len(Attribute_read(impl, PendingName, PendingHeader.length, PendingBody,
                         cf.constant_pool).rest)

\* C19: for an attribute of a recognised shape (Code, LineNumberTable,
\* SourceFile) the bytes consumed by its body are compared with the declared
\* length: a difference fails with AttributeLengthMismatch, so a successful
\* decode leaves the input at body start plus the declared length.
C19_LengthMismatchFails ==
  (AtKnownShape /\ PendingHeader.length # <<0, BodyConsumed>>) =>
    /\ PendingAttribute = Err("AttributeLengthMismatch")
    /\ Finished => outcome = Failure(Err("AttributeLengthMismatch"))

\* C20: with a declared constant-table count of 0 the number of entries to
\* read does not underflow: ClassFile::read returns a failure value, without
\* a panic and without setting out to read 65535 entries; with a count
\* N >= 1 it reads N - 1 entries and the table has N slots, the placeholder
\* at slot 0.
C20_CountDoesNotUnderflow ==
  /\ (Rank(pc) >= Rank("constant_pool") /\ cf.constant_pool_count = 0) =>
       /\ outcome.kind = "err"
       /\ todo = 0
  /\ (Rank(pc) > Rank("constant_pool") /\ cf.constant_pool_count >= 1) =>
       /\ Len(cf.constant_pool) = cf.constant_pool_count
       /\ Head(cf.constant_pool) = Placeholder

=============================================================================
